---- MODULE Spec2Model ----
(***************************************************************************)
(* Model of the card generator (src/generate_cards.py, src/app.py).        *)
(*                                                                         *)
(* The parts of the program are modelled each with its own specification   *)
(* over the shared variables:                                              *)
(*   SpecBarcode    : normalize_barcode / compute_ean13_check_digit        *)
(*   SpecConfig     : validate_config                                      *)
(*   SpecLayout     : layout_cards_on_a4                                   *)
(*   SpecDuplicates : check_duplicates                                     *)
(*   SpecName       : parse_fio                                            *)
(*   SpecRun        : process_file_web, read_excel_rows                    *)
(*   SpecWeb        : the Streamlit page of app.py                         *)
(*                                                                         *)
(* Strings are sequences of one-character strings.  A Python value is a    *)
(* record tagged with its type.  A call that raises yields a result with   *)
(* ok = FALSE and the exception's payload in err.                          *)
(***************************************************************************)
EXTENDS Integers, Sequences, FiniteSets, TLC

VARIABLES
    \* ---- normalize_barcode ----
    bc_pc,        \* "idle" | "returned" | "renormalized"
    bc_value,     \* the value argument of the latest call
    bc_row,       \* the row_index argument
    bc_ret,       \* outcome of the latest call
    bc_prev,      \* outcome of the call before it (NoCall when there is none)
    \* ---- load_config / validate_config ----
    lc_pc,        \* "idle" | "loading" | "validated" | "loaded"
    lc_i,         \* index in ConfigFields of the field load_config looks at next
    lc_set,       \* number of fields config.json has overridden so far
    config,       \* the Config object
    vc_input,     \* the Config as validate_config received it
    vc_log,       \* records validate_config sent to the logger, in order
    vc_ret,       \* outcome of validate_config
    \* ---- layout_cards_on_a4 ----
    lay_pc,       \* "idle" | "loop" | "saved"
    lay_config,   \* the config argument
    cards,        \* the cards argument: card images, named by number
    lay_i,        \* index in cards of the card the loop takes next
    loop,         \* the loop's variables col, x, y
    first_row_y,  \* page_h_pt - top_margin_pt - card_h_pt as computed
    pdf,          \* the canvas: pages shown so far and the page being drawn
    draws,        \* every drawImage call so far, in order
    \* ---- check_duplicates ----
    cd_pc,        \* "idle" | "returned"
    cd_rows,      \* the rows argument: (row_idx, barcode_value) pairs
    cd_ret,       \* the mapping returned, in the dict's insertion order
    \* ---- parse_fio ----
    fio_pc,       \* "idle" | "returned" | "reparsed"
    fio_arg,      \* the raw argument of the latest call
    fio_ret,      \* outcome of the latest call
    fio_prev,     \* outcome of the call before it (NoCall when there is none)
    \* ---- process_file_web ----
    run_pc,       \* "idle" | "configured" | "read" | "checked" | "rendered"
                  \*   | "layout" | "done" | "failed"
    run_config,   \* config, as load_config returned it
    sheet,        \* the rows of the active worksheet, the header row first
    entries,      \* what read_excel_rows returned
    run_log,      \* records sent to the logger, in order
    run_cards,    \* the list cards: (fio, barcode, card_img)
    run_ret,      \* outcome of process_file_web
    \* ---- app.py ----
    web_pc,       \* what the page shows: "no_file" | "read_error" | "table"
    uploaded,     \* the rows of the uploaded workbook (<<>> before an upload)
    web_entries,  \* entries, as the script's read_excel_rows call returned them
    row_selection, \* st.session_state["row_selection"]: row_idx -> ticked
    web_msg,      \* the message the last press of the button ended with
    web_ret,      \* outcome of the script's call of process_file_web
    web_doc       \* the cards of the PDF offered for download

bc_vars == <<bc_pc, bc_value, bc_row, bc_ret, bc_prev>>
vc_vars == <<lc_pc, lc_i, lc_set, config, vc_input, vc_log, vc_ret>>

lay_vars == <<lay_pc, lay_config, cards, lay_i, loop, first_row_y, pdf, draws>>

cd_vars == <<cd_pc, cd_rows, cd_ret>>

fio_vars == <<fio_pc, fio_arg, fio_ret, fio_prev>>

run_vars == <<run_pc, run_config, sheet, entries, run_log, run_cards, run_ret>>

web_vars == <<web_pc, uploaded, web_entries, row_selection, web_msg, web_ret, web_doc>>

vars == <<bc_vars, vc_vars, lay_vars, cd_vars, fio_vars, run_vars, web_vars>>

(***************************************************************************)
(* Characters and strings                                                  *)
(***************************************************************************)
Digit == {"0", "1", "2", "3", "4", "5", "6", "7", "8", "9"}

\* int(ch) for a decimal digit character
DigitVal == [c \in Digit |->
    CASE c = "0" -> 0 [] c = "1" -> 1 [] c = "2" -> 2 [] c = "3" -> 3
      [] c = "4" -> 4 [] c = "5" -> 5 [] c = "6" -> 6 [] c = "7" -> 7
      [] c = "8" -> 8 [] c = "9" -> 9]

\* str(d) for an integer 0..9
DigitChar == [d \in 0..9 |-> CHOOSE c \in Digit : DigitVal[c] = d]

Whitespace == {" "}

\* str.isdigit(): non-empty and every character a digit
isdigit(s) == Len(s) > 0 /\ \A i \in 1..Len(s) : s[i] \in Digit

RECURSIVE lstrip(_)
lstrip(s) == IF Len(s) > 0 /\ Head(s) \in Whitespace THEN lstrip(Tail(s)) ELSE s

RECURSIVE rstrip(_)
rstrip(s) ==
    IF Len(s) > 0 /\ s[Len(s)] \in Whitespace
    THEN rstrip(SubSeq(s, 1, Len(s) - 1))
    ELSE s

\* str.strip()
strip(s) == rstrip(lstrip(s))

\* re.sub(r"\D", "", raw): drop every non-digit character
StripNonDigits(raw) == SelectSeq(raw, LAMBDA c : c \in Digit)

(***************************************************************************)
(* Python values reaching normalize_barcode                                *)
(***************************************************************************)
None == [type |-> "NoneType"]
Str(s) == [type |-> "str", chars |-> s]
\* A numeric cell: sign, integer part as decimal digits (no leading zero),
\* and the first fractional digit; an int has tenths = 0.
Num(neg, digits, tenths) ==
    [type |-> "float", neg |-> neg, int |-> digits, tenths |-> tenths]

\* decimal increment with carry
RECURSIVE Incr(_)
Incr(ds) ==
    IF Len(ds) = 0 THEN <<"1">>
    ELSE LET last == DigitVal[ds[Len(ds)]]
             init == SubSeq(ds, 1, Len(ds) - 1)
         IN IF last = 9 THEN Incr(init) \o <<"0">>
            ELSE init \o <<DigitChar[last + 1]>>

\* format(value, ".0f"): round to an integer, ties to even, keep the sign
format_0f(v) ==
    LET last == DigitVal[v.int[Len(v.int)]]
        up == v.tenths > 5 \/ (v.tenths = 5 /\ last % 2 = 1)
        mag == IF up THEN Incr(v.int) ELSE v.int
    IN (IF v.neg THEN <<"-">> ELSE <<>>) \o mag

(***************************************************************************)
(* Results of a call                                                       *)
(***************************************************************************)
Return(v) == [ok |-> TRUE, val |-> v]
Raise(e) == [ok |-> FALSE, err |-> e]
NoCall == [ok |-> FALSE, err |-> [kind |-> "NoCall"]]

(***************************************************************************)
(* compute_ean13_check_digit                                               *)
(***************************************************************************)
RECURSIVE SumAt(_, _, _)
\* sum(digits[from::2]), from 0-based; i is the 1-based position
SumAt(s, i, w) ==
    IF i > Len(s) THEN 0 ELSE w * DigitVal[s[i]] + SumAt(s, i + 2, w)

\* the weights exchanged: 3 on the even (0-indexed) positions
compute_ean13_check_digit_swapped(data12) ==
    IF Len(data12) # 12 \/ ~isdigit(data12)
    THEN Raise([kind |-> "NeedTwelveDigits"])
    ELSE LET checksum == (10 - ((SumAt(data12, 1, 3) + SumAt(data12, 2, 1)) % 10)) % 10
         IN Return(<<DigitChar[checksum]>>)

compute_ean13_check_digit(data12) ==
    IF Len(data12) # 12 \/ ~isdigit(data12)
    THEN Raise([kind |-> "NeedTwelveDigits"])
    ELSE LET checksum == (10 - ((SumAt(data12, 1, 1) + SumAt(data12, 2, 3)) % 10)) % 10
         IN Return(<<DigitChar[checksum]>>)

(***************************************************************************)
(* normalize_barcode                                                       *)
(***************************************************************************)
\* the raw text of a value: format(value, ".0f") or str(value).strip()
RawText(value) ==
    IF value.type = "float" THEN format_0f(value)
    ELSE IF value.type = "int" THEN (IF value.neg THEN <<"-">> ELSE <<>>) \o value.int
    ELSE strip(value.chars)

\* the 13th digit compared at the wrong index (digits_only[-2])
normalize_barcode_wrong_index(value, row_index) ==
    IF value = None
    THEN Raise([kind |-> "EmptyBarcode", row |-> row_index])
    ELSE
      LET digits_only == StripNonDigits(RawText(value)) IN
      IF Len(digits_only) = 12
      THEN LET cd == compute_ean13_check_digit(digits_only)
           IN IF cd.ok THEN Return(digits_only \o cd.val) ELSE cd
      ELSE IF Len(digits_only) = 13
      THEN LET expected == compute_ean13_check_digit(SubSeq(digits_only, 1, 12))
           IN IF ~expected.ok THEN expected
              ELSE IF expected.val # <<digits_only[12]>>
              THEN Raise([kind |-> "BadCheckDigit", row |-> row_index,
                          expected |-> expected.val])
              ELSE Return(digits_only)
      ELSE Raise([kind |-> "BadDigitCount", row |-> row_index,
                  found |-> Len(digits_only)])

\* the error names the digit found, not the digit expected
normalize_barcode_names_found(value, row_index) ==
    IF value = None
    THEN Raise([kind |-> "EmptyBarcode", row |-> row_index])
    ELSE
      LET digits_only == StripNonDigits(RawText(value)) IN
      IF Len(digits_only) = 12
      THEN LET cd == compute_ean13_check_digit(digits_only)
           IN IF cd.ok THEN Return(digits_only \o cd.val) ELSE cd
      ELSE IF Len(digits_only) = 13
      THEN LET expected == compute_ean13_check_digit(SubSeq(digits_only, 1, 12))
           IN IF ~expected.ok THEN expected
              ELSE IF expected.val # <<digits_only[13]>>
              THEN Raise([kind |-> "BadCheckDigit", row |-> row_index,
                          expected |-> <<digits_only[13]>>])
              ELSE Return(digits_only)
      ELSE Raise([kind |-> "BadDigitCount", row |-> row_index,
                  found |-> Len(digits_only)])

\* the error counts the characters of the raw text, not its digits
normalize_barcode_counts_raw(value, row_index) ==
    IF value = None
    THEN Raise([kind |-> "EmptyBarcode", row |-> row_index])
    ELSE
      LET digits_only == StripNonDigits(RawText(value)) IN
      IF Len(digits_only) = 12
      THEN LET cd == compute_ean13_check_digit(digits_only)
           IN IF cd.ok THEN Return(digits_only \o cd.val) ELSE cd
      ELSE IF Len(digits_only) = 13
      THEN LET expected == compute_ean13_check_digit(SubSeq(digits_only, 1, 12))
           IN IF ~expected.ok THEN expected
              ELSE IF expected.val # <<digits_only[13]>>
              THEN Raise([kind |-> "BadCheckDigit", row |-> row_index,
                          expected |-> expected.val])
              ELSE Return(digits_only)
      ELSE Raise([kind |-> "BadDigitCount", row |-> row_index,
                  found |-> Len(RawText(value))])

normalize_barcode(value, row_index) ==
    IF value = None
    THEN Raise([kind |-> "EmptyBarcode", row |-> row_index])
    ELSE
      LET digits_only == StripNonDigits(RawText(value)) IN
      IF Len(digits_only) = 12
      THEN LET cd == compute_ean13_check_digit(digits_only)
           IN IF cd.ok THEN Return(digits_only \o cd.val) ELSE cd
      ELSE IF Len(digits_only) = 13
      THEN LET expected == compute_ean13_check_digit(SubSeq(digits_only, 1, 12))
           IN IF ~expected.ok THEN expected
              ELSE IF expected.val # <<digits_only[13]>>
              THEN Raise([kind |-> "BadCheckDigit", row |-> row_index,
                          expected |-> expected.val])
              ELSE Return(digits_only)
      ELSE Raise([kind |-> "BadDigitCount", row |-> row_index,
                  found |-> Len(digits_only)])

(***************************************************************************)
(* Inputs of normalize_barcode                                             *)
(***************************************************************************)
\* most digits an input cell holds
MaxRawDigits == 14

\* the row identities passed as row_index (row 1 is the header)
RowIds == {2, 3}

\* the 13-digit sample the digit strings are derived from
SampleDigits == <<"4", "0", "0", "6", "3", "8", "1", "3", "3", "3", "9", "3", "1">>

\* the first n digits of the sample, repeated cyclically
SamplePrefix(n) == [i \in 1..n |-> SampleDigits[((i - 1) % Len(SampleDigits)) + 1]]

\* the sample prefix with the digits at p1 and then p2 overwritten
Edited(n, p1, d1, p2, d2) ==
    LET base == SamplePrefix(n)
    IN [i \in 1..n |-> IF i = p2 THEN d2 ELSE IF i = p1 THEN d1 ELSE base[i]]

CellStyles == {"plain", "padded", "grouped", "labelled"}

\* how a digit string appears in a text cell
Decorate(style, ds) ==
    CASE style = "plain" -> ds
      [] style = "padded" -> <<" ">> \o ds \o <<" ", " ">>
      [] style = "grouped" ->
            IF Len(ds) < 2 THEN <<"-">> \o ds
            ELSE <<ds[1]>> \o <<"-">> \o SubSeq(ds, 2, Len(ds))
      [] style = "labelled" -> <<"N", "o", "."  , " ">> \o ds \o <<"x">>

(***************************************************************************)
(* Config                                                                  *)
(*                                                                         *)
(* Lengths, sizes and percentages are fixed-point numbers counted in       *)
(* tenths (0.2 mm is 2, 100.0 % is 1000); font_size_pt and cards_per_row   *)
(* are integers.  An Optional[float] is <<>> for None and <<v>> for v.     *)
(***************************************************************************)
\* the number whole.tenth
Fx(whole, tenth) == whole * 10 + tenth

Some(v) == <<v>>
Nothing == <<>>

A4_WIDTH_MM == 210
A4_HEIGHT_MM == 297

DEFAULT_CONFIG == [
    card_width_mm |-> Fx(35, 0),
    card_height_mm |-> Fx(15, 0),
    card_border_thickness_mm |-> Fx(0, 2),
    font_path |-> "ArialNarrow.ttf",
    font_size_pt |-> 7,
    text_orientation |-> "horizontal",
    text_top_offset_mm |-> Fx(2, 0),
    barcode_width_mm |-> Fx(26, 0),
    barcode_height_scale_percent |-> Fx(100, 0),
    barcode_top_offset_percent |-> Nothing,
    barcode_right_offset_mm |-> Fx(6, 0),
    cards_per_row |-> 5,
    gap_mm |-> Fx(1, 0),
    top_margin_mm |-> Fx(12, 0),
    export_individual_cards |-> TRUE]

\* str.lower() on the orientation strings a config.json may hold
lower(str) == IF str = "VERTICAL" THEN "vertical" ELSE str

\* an ensure_percent that replaces the list of errors instead of appending
ensure_percent_overwrites(errors, name, value) ==
    IF value = Nothing THEN errors
    ELSE IF value[1] <= 0 \/ value[1] > Fx(100, 0)
    THEN <<[kind |-> "NotPercent", name |-> name, value |-> value[1]]>>
    ELSE errors

\* an ensure_positive that lets zero through whatever allow_zero says
ensure_positive_zero_allowed(errors, name, value, allow_zero) ==
    IF value = Nothing THEN errors
    ELSE IF value[1] < 0
    THEN Append(errors, [kind |-> "NotPositive", name |-> name, value |-> value[1]])
    ELSE errors

\* validate_config.ensure_positive: errors after the check of one field
ensure_positive(errors, name, value, allow_zero) ==
    IF value = Nothing THEN errors
    ELSE IF (~allow_zero /\ value[1] <= 0) \/ (allow_zero /\ value[1] < 0)
    THEN Append(errors, [kind |-> "NotPositive", name |-> name, value |-> value[1]])
    ELSE errors

\* validate_config.ensure_percent
ensure_percent(errors, name, value) ==
    IF value = Nothing THEN errors
    ELSE IF value[1] <= 0 \/ value[1] > Fx(100, 0)
    THEN Append(errors, [kind |-> "NotPercent", name |-> name, value |-> value[1]])
    ELSE errors

\* the errors list when validate_config reaches its end (lines 165-195)
HardRuleErrors(c) ==
    LET e1 == ensure_positive(<<>>, "card_width_mm", Some(c.card_width_mm), FALSE)
        e2 == ensure_positive(e1, "card_height_mm", Some(c.card_height_mm), FALSE)
        e3 == ensure_positive(e2, "card_border_thickness_mm",
                              Some(c.card_border_thickness_mm), TRUE)
        e4 == ensure_positive(e3, "font_size_pt", Some(c.font_size_pt), FALSE)
        e5 == ensure_positive(e4, "text_top_offset_mm", Some(c.text_top_offset_mm), TRUE)
        e6 == ensure_positive(e5, "gap_mm", Some(c.gap_mm), TRUE)
        e7 == ensure_positive(e6, "top_margin_mm", Some(c.top_margin_mm), TRUE)
        e8 == ensure_positive(e7, "barcode_width_mm", Some(c.barcode_width_mm), FALSE)
        e9 == ensure_percent(e8, "barcode_height_scale_percent",
                             Some(c.barcode_height_scale_percent))
        e10 == ensure_positive(e9, "barcode_right_offset_mm",
                               Some(c.barcode_right_offset_mm), TRUE)
        e11 == IF c.barcode_top_offset_percent # Nothing
               THEN ensure_percent(e10, "barcode_top_offset_percent",
                                   c.barcode_top_offset_percent)
               ELSE e10
    IN IF c.cards_per_row < 1
       THEN Append(e11, [kind |-> "CardsPerRowBelowOne", name |-> "cards_per_row"])
       ELSE e11

\* config.text_orientation as validate_config leaves it (lines 197-204)
NormalizedOrientation(c) ==
    LET orientation == lower(c.text_orientation)
    IN IF orientation \notin {"horizontal", "vertical"} THEN "horizontal"
       ELSE orientation

\* the warnings list when validate_config reaches its end (lines 197-212)
SoftWarnings(c) ==
    LET w1 == IF lower(c.text_orientation) \notin {"horizontal", "vertical"}
              THEN <<[kind |-> "UnknownOrientation", value |-> c.text_orientation]>>
              ELSE <<>>
        w2 == IF (c.barcode_width_mm + c.barcode_right_offset_mm) > c.card_width_mm
              THEN Append(w1, [kind |-> "BarcodeMayNotFit"])
              ELSE w1
        row_width == c.cards_per_row * c.card_width_mm
                        + (c.cards_per_row - 1) * c.gap_mm
    IN IF row_width > Fx(A4_WIDTH_MM, 0)
       THEN Append(w2, [kind |-> "RowExceedsA4"])
       ELSE w2

LogAll(level, msgs) == [i \in 1..Len(msgs) |-> [level |-> level, msg |-> msgs[i]]]

\* validate_config: the logger's records, the Config object afterwards, and
\* the outcome.  The ValueError's text names no field: names is the set of
\* field names its message mentions.
validate_config(c) ==
    LET errors == HardRuleErrors(c)
        warnings == SoftWarnings(c)
        after == [c EXCEPT !.text_orientation = NormalizedOrientation(c)]
    IN [log |-> LogAll("WARNING", warnings) \o LogAll("ERROR", errors),
        config |-> after,
        ret |-> IF Len(errors) > 0
                THEN Raise([kind |-> "ValueError", text |-> "ConfigErrorSeeLog",
                            names |-> {}])
                ELSE Return(after)]

(***************************************************************************)
(* Contents of config.json                                                 *)
(***************************************************************************)
\* most fields a config.json overrides
MaxOverrides == 3

\* the fields of Config that config.json may set, in dataclass order
ConfigFields == <<"card_width_mm", "card_height_mm", "card_border_thickness_mm",
                  "font_size_pt", "text_orientation", "text_top_offset_mm",
                  "barcode_width_mm", "barcode_height_scale_percent",
                  "barcode_top_offset_percent", "barcode_right_offset_mm",
                  "cards_per_row", "gap_mm", "top_margin_mm">>

\* the values config.json gives a field
FieldValues(f) ==
    CASE f = "card_width_mm" -> {Fx(-1, 0), 0, Fx(50, 0)}
      [] f = "card_height_mm" -> {Fx(-1, 0), 0, Fx(100, 0)}
      [] f = "card_border_thickness_mm" -> {-2, 0, Fx(0, 5)}
      [] f = "font_size_pt" -> {-1, 0, 9}
      [] f = "text_orientation" -> {"vertical", "VERTICAL", "diagonal", ""}
      [] f = "text_top_offset_mm" -> {Fx(-1, 0), 0, Fx(3, 0)}
      [] f = "barcode_width_mm" -> {Fx(-1, 0), 0, Fx(30, 0)}
      [] f = "barcode_height_scale_percent" ->
            {Fx(-10, 0), 0, Fx(80, 0), Fx(100, 1), Fx(150, 0)}
      [] f = "barcode_top_offset_percent" ->
            {Some(Fx(-10, 0)), Some(0), Some(Fx(40, 0)), Some(Fx(100, 0)),
             Some(Fx(150, 0))}
      [] f = "barcode_right_offset_mm" -> {Fx(-1, 0), 0, Fx(12, 0)}
      [] f = "cards_per_row" -> {-1, 0, 1, 7}
      [] f = "gap_mm" -> {Fx(-1, 0), 0, Fx(5, 0)}
      [] f = "top_margin_mm" -> {Fx(-1, 0), 0, Fx(20, 0)}

(***************************************************************************)
(* layout_cards_on_a4                                                      *)
(*                                                                         *)
(* A length of p points is the integer p * MM_IN_INCH, so that             *)
(* mm_to_points is exact.  The program computes in binary floating point:  *)
(* a float y is the pair of its exact value v and the sign e of its        *)
(* rounding error.  The error is far smaller than any non-zero v the model *)
(* reaches, so e decides the test y < 0 only where v = 0, and there the    *)
(* error may have either sign or be absent.                                *)
(***************************************************************************)
MM_IN_INCH == Fx(25, 4)
PT_IN_INCH == 72

\* mm_value / MM_IN_INCH * PT_IN_INCH, in units of 1/MM_IN_INCH point
mm_to_points(mm_value) == mm_value * PT_IN_INCH

Float(v, e) == [v |-> v, e |-> e]

\* the signs the rounding error of a float of exact value v may have
ErrSigns(v) == IF v = 0 THEN {-1, 0, 1} ELSE {0}

\* y < 0 on floats
IsNegative(y) == y.v < 0 \/ (y.v = 0 /\ y.e < 0)

page_h_pt == mm_to_points(Fx(A4_HEIGHT_MM, 0))
card_w_pt(c) == mm_to_points(c.card_width_mm)
card_h_pt(c) == mm_to_points(c.card_height_mm)
gap_pt(c) == mm_to_points(c.gap_mm)
top_margin_pt(c) == mm_to_points(c.top_margin_mm)

\* the exact value of page_h_pt - top_margin_pt - card_h_pt
FirstRowY(c) == page_h_pt - top_margin_pt(c) - card_h_pt(c)

\* the signs of its rounding error: with no top margin the value 0 comes
\* from subtracting a float from itself, which is exact
FirstRowErrSigns(c) ==
    IF top_margin_pt(c) = 0 THEN {0} ELSE ErrSigns(FirstRowY(c))

\* canvas.Canvas(...): no page shown, nothing on the current page
NewCanvas == [shown |-> <<>>, page |-> <<>>]

\* pdf.showPage(): the current page is emitted, a fresh one begins
showPage(canvas) == [shown |-> Append(canvas.shown, canvas.page), page |-> <<>>]

\* pdf.drawImage(...): the card is put on the current page
drawImage(canvas, card) == [canvas EXCEPT !.page = Append(@, card)]

\* pdf.save(): a page that has content is emitted
save(canvas) == IF Len(canvas.page) > 0 THEN showPage(canvas) ELSE canvas

\* a row advance that tests col > cards_per_row
AdvanceRow_off_by_one(st, c, e) ==
    IF st.col > c.cards_per_row
    THEN [col |-> 0, x |-> 0, y |-> Float(st.y.v - (card_h_pt(c) + gap_pt(c)), e)]
    ELSE st

\* lines 473-476: after cards_per_row cards, go to the next row;
\* e is the sign of the rounding error of the subtraction
AdvanceRow(st, c, e) ==
    IF st.col >= c.cards_per_row
    THEN [col |-> 0, x |-> 0, y |-> Float(st.y.v - (card_h_pt(c) + gap_pt(c)), e)]
    ELSE st

\* a page break that leaves y where it was
BreakPage_keeps_y(st, y0) ==
    IF IsNegative(st.y) THEN [col |-> 0, x |-> 0, y |-> st.y] ELSE st

\* lines 478-482, the loop's variables: a row below the page starts a new page
BreakPage(st, y0) ==
    IF IsNegative(st.y) THEN [col |-> 0, x |-> 0, y |-> y0] ELSE st

\* a step to the next column that leaves x where it was
NextColumn_keeps_x(st, c) ==
    [st EXCEPT !.col = @ + 1]

\* lines 487-488: the next column
NextColumn(st, c) ==
    [st EXCEPT !.col = @ + 1, !.x = @ + card_w_pt(c) + gap_pt(c)]

(***************************************************************************)
(* Inputs of layout_cards_on_a4                                            *)
(***************************************************************************)
\* most cards laid out in one call
MaxCards == 7

\* the geometries laid out: the defaults with these fields replaced
LayoutConfigs ==
    {[DEFAULT_CONFIG EXCEPT !.cards_per_row = n, !.card_width_mm = w,
                            !.card_height_mm = h, !.gap_mm = g,
                            !.top_margin_mm = t] :
        n \in {1, 2, 3, 5},
        w \in {Fx(35, 0), Fx(80, 0)},
        h \in {Fx(15, 0), Fx(99, 0), Fx(100, 0), Fx(140, 0), Fx(285, 0), Fx(297, 0)},
        g \in {0, Fx(1, 0)},
        t \in {0, Fx(12, 0), Fx(20, 0)}}

(***************************************************************************)
(* check_duplicates                                                        *)
(*                                                                         *)
(* A dict is the sequence of its items in insertion order, each item a     *)
(* record of its key and its value.                                        *)
(***************************************************************************)
\* the position of key among the items of dict d, 0 when it is not a key
KeyIndex(d, key) ==
    IF \E i \in 1..Len(d) : d[i].key = key
    THEN CHOOSE i \in 1..Len(d) : d[i].key = key
    ELSE 0

\* a new row index put in front of the list
setdefault_append_in_front(seen, key, row_idx) ==
    LET i == KeyIndex(seen, key)
    IN IF i = 0 THEN Append(seen, [key |-> key, val |-> <<row_idx>>])
       ELSE [seen EXCEPT ![i].val = <<row_idx>> \o @]

\* seen.setdefault(key, []).append(row_idx)
setdefault_append(seen, key, row_idx) ==
    LET i == KeyIndex(seen, key)
    IN IF i = 0 THEN Append(seen, [key |-> key, val |-> <<row_idx>>])
       ELSE [seen EXCEPT ![i].val = Append(@, row_idx)]

RECURSIVE SeenAfter(_, _)
\* seen after the loop of lines 298-299 has taken the first n rows
SeenAfter(rows, n) ==
    IF n = 0 THEN <<>>
    ELSE setdefault_append(SeenAfter(rows, n - 1), rows[n][2], rows[n][1])

\* the comprehension of line 300
check_duplicates(rows) ==
    SelectSeq(SeenAfter(rows, Len(rows)), LAMBDA item : Len(item.val) > 1)

\* most pairs handed to check_duplicates
MaxPairs == 4

\* the row identities and the identifiers of the pairs
PairRows == {2, 3, 4}
PairCodes == {"A", "B", "C"}

(***************************************************************************)
(* parse_fio                                                               *)
(*                                                                         *)
(* The characters of a name: Latin letters stand for themselves, the       *)
(* Cyrillic letters zhe and yo are written "zh" and "yo" (capitals "ZH"    *)
(* and "YO"); "," and "1" are characters outside the token alphabet.       *)
(***************************************************************************)
LowerLetters == {"a", "b", "zh", "yo"}
UpperLetters == {"A", "B", "ZH", "YO"}

\* the class [A-Za-zА-Яа-яЁё\.-] of line 236
TokenChars == LowerLetters \cup UpperLetters \cup {".", "-"}

NameAlphabet == TokenChars \cup Whitespace \cup {",", "1"}

\* str.upper() on one character
upper_char(c) ==
    CASE c = "a" -> "A" [] c = "b" -> "B" [] c = "zh" -> "ZH" [] c = "yo" -> "YO"
      [] OTHER -> c

\* str.upper()
upper(str) == [i \in 1..Len(str) |-> upper_char(str[i])]

\* str.replace(old, new) for one-character old and new
replace(str, old, new) == [i \in 1..Len(str) |-> IF str[i] = old THEN new ELSE str[i]]

\* the length of the longest prefix of str made of characters of class
PrefixLen(str, class) ==
    CHOOSE n \in 0..Len(str) :
        /\ \A i \in 1..n : str[i] \in class
        /\ n = Len(str) \/ str[n + 1] \notin class

RECURSIVE Runs(_, _)
\* the maximal runs of characters of class in str, left to right
Runs(str, class) ==
    IF Len(str) = 0 THEN <<>>
    ELSE IF str[1] \notin class THEN Runs(Tail(str), class)
    ELSE LET n == PrefixLen(str, class)
         IN <<SubSeq(str, 1, n)>> \o Runs(SubSeq(str, n + 1, Len(str)), class)

\* str.split(): the runs of non-whitespace characters
split(str) == Runs(str, NameAlphabet \ Whitespace)

\* re.findall(r"[A-Za-zА-Яа-яЁё\.-]+", str)
findall_tokens(str) == Runs(str, TokenChars)

RECURSIVE join(_, _)
\* sep.join(parts)
join(sep, parts) ==
    IF Len(parts) = 0 THEN <<>>
    ELSE IF Len(parts) = 1 THEN parts[1]
    ELSE parts[1] \o sep \o join(sep, Tail(parts))

RECURSIVE strip_chars(_, _)
\* str.strip(chars)
strip_chars(str, chars) ==
    IF Len(str) > 0 /\ str[1] \in chars THEN strip_chars(Tail(str), chars)
    ELSE IF Len(str) > 0 /\ str[Len(str)] \in chars
    THEN strip_chars(SubSeq(str, 1, Len(str) - 1), chars)
    ELSE str

\* "." in t
HasPeriod(t) == \E i \in 1..Len(t) : t[i] = "."

\* the test looks at tokens[2:] only
any_period_skips_first(rest) == \E i \in 2..Len(rest) : HasPeriod(rest[i])

\* any("." in t for t in tokens[1:]), rest being tokens[1:]
any_period(rest) == \E i \in 1..Len(rest) : HasPeriod(rest[i])

parse_fio(raw) ==
    IF raw = None THEN Raise([kind |-> "EmptyFio"])
    ELSE
      LET cleaned == join(<<" ">>, split(strip(raw.chars))) IN
      IF Len(cleaned) = 0 THEN Raise([kind |-> "EmptyFio"])
      ELSE
        LET tokens == findall_tokens(cleaned) IN
        IF Len(tokens) = 0 THEN Raise([kind |-> "UnrecognizedFio"])
        ELSE
          LET surname == upper(replace(tokens[1], "yo", "YO"))
              rest == Tail(tokens)
          IN
          IF any_period(rest)
          THEN LET initials == join(<<" ">>, [i \in 1..Len(rest) |-> upper(rest[i])])
               IN Return(strip(surname \o <<" ">> \o initials))
          ELSE
            LET initials_parts ==
                    SelectSeq(rest, LAMBDA t : Len(strip_chars(t, {".", "-"})) > 0)
            IN
            IF Len(initials_parts) = 0 THEN Return(surname)
            ELSE
              LET taken == IF Len(initials_parts) < 2 THEN Len(initials_parts) ELSE 2
                  initials ==
                      join(<<".">>, [i \in 1..taken |-> <<upper_char(initials_parts[i][1])>>])
                        \o <<".">>
              IN Return(strip(surname \o <<" ">> \o initials))

(***************************************************************************)
(* Inputs of parse_fio                                                     *)
(***************************************************************************)
\* most words in a raw name
MaxWords == 4

\* the words a raw name is made of
NameWords ==
    { <<"a", "b">>, <<"yo", "zh">>, <<"B">>, <<"a", ".">>, <<"a", ".", "b", ".">>,
      <<"-", "b">>, <<"-">>, <<"1">>, <<".">> }

\* how the words are put together: one space between them; two spaces and
\* spaces around; a comma and no space
NameStyles == {"spaced", "padded", "comma"}

RawName(style, words) ==
    CASE style = "spaced" -> join(<<" ">>, words)
      [] style = "padded" -> <<" ">> \o join(<<" ", " ">>, words) \o <<" ", " ">>
      [] style = "comma" -> join(<<",">>, words)

(***************************************************************************)
(* read_excel_rows                                                         *)
(*                                                                         *)
(* A worksheet row is the tuple of its cells; a cell is None, a text, an   *)
(* int or a float.                                                         *)
(***************************************************************************)
PyInt(neg, digits) == [type |-> "int", neg |-> neg, int |-> digits]

\* str(value)
py_str(value) ==
    CASE value.type = "str" -> value.chars
      [] value.type = "int" -> (IF value.neg THEN <<"-">> ELSE <<>>) \o value.int
      [] value.type = "float" ->
            (IF value.neg THEN <<"-">> ELSE <<>>) \o value.int
                \o <<".", DigitChar[value.tenths]>>

\* (val is None) or (isinstance(val, str) and not val.strip())
IsBlankCell(val) == val = None \/ (val.type = "str" /\ Len(strip(val.chars)) = 0)

\* lines 572-578 with the except clause replaced by "continue"
NormalizeRow_skips_on_error(st, idx, fio_raw, barcode_raw) ==
    LET fio == parse_fio(fio_raw)
        barcode == normalize_barcode(barcode_raw, idx)
    IN IF ~fio.ok THEN st
       ELSE IF ~barcode.ok THEN st
       ELSE [st EXCEPT !.entries = Append(@, <<idx, fio.val, barcode.val>>)]

\* lines 572-578: normalize the name and the barcode of a row; a failure of
\* either is raised again with the row in front
NormalizeRow(st, idx, fio_raw, barcode_raw) ==
    LET fio == parse_fio(fio_raw)
        barcode == normalize_barcode(barcode_raw, idx)
    IN IF ~fio.ok
       THEN [st EXCEPT !.ret = Raise([kind |-> "RowError", row |-> idx, cause |-> fio.err])]
       ELSE IF ~barcode.ok
       THEN [st EXCEPT !.ret = Raise([kind |-> "RowError", row |-> idx, cause |-> barcode.err])]
       ELSE [st EXCEPT !.entries = Append(@, <<idx, fio.val, barcode.val>>)]

\* one pass of the loop of lines 541-578 over row idx, unless an earlier pass
\* has raised
ReadRow(st, idx, values) ==
    IF ~st.ret.ok THEN st
    ELSE IF idx = 1 THEN st
    ELSE IF Len(values) = 0 \/ \A k \in 1..Len(values) : IsBlankCell(values[k]) THEN st
    ELSE
      LET fio_raw == IF Len(values) > 0 THEN values[1] ELSE None
          barcode_raw == IF Len(values) > 1 THEN values[2] ELSE None
      IN
      IF IsBlankCell(fio_raw) THEN st
      ELSE IF barcode_raw = None
      THEN [st EXCEPT !.log = Append(@, [level |-> "WARNING", kind |-> "BarcodeEmptyRowSkipped",
                                         row |-> idx])]
      ELSE
        LET digits == StripNonDigits(strip(py_str(barcode_raw))) IN
        IF Len(digits) \notin {12, 13}
        THEN [st EXCEPT !.log = Append(@, [level |-> "WARNING", kind |-> "BarcodeClearedAsEmpty",
                                           row |-> idx, length |-> Len(digits)])]
        ELSE NormalizeRow(st, idx, fio_raw, Str(digits))

RECURSIVE ReadRows(_, _)
\* the loop of lines 541-578 after its first n passes
ReadRows(rows, n) ==
    IF n = 0 THEN [entries |-> <<>>, log |-> <<>>, ret |-> Return(<<>>)]
    ELSE CHOOSE after \in {ReadRow(st, n, rows[n]) : st \in {ReadRows(rows, n - 1)}} : TRUE

\* read_excel_rows on a workbook whose active sheet holds rows
read_excel_rows(rows) ==
    LET st == ReadRows(rows, Len(rows))
    IN [log |-> st.log,
        ret |-> IF ~st.ret.ok THEN st.ret
                ELSE IF Len(st.entries) = 0 THEN Raise([kind |-> "NoData"])
                ELSE Return(st.entries)]

(***************************************************************************)
(* process_file_web                                                        *)
(***************************************************************************)
\* the folder of the workbook: without config.json, with one that is not
\* JSON, or with one that parses; config is then the defaults with the
\* fields of the file set
NoConfigJson == [kind |-> "absent"]
BrokenConfigJson == [kind |-> "broken"]
ConfigJson(c) == [kind |-> "parsed", config |-> c]

\* load_config(folder)
load_config(file) ==
    IF file.kind = "absent" THEN [log |-> <<>>, ret |-> Return(DEFAULT_CONFIG)]
    ELSE IF file.kind = "broken"
    THEN [log |-> <<[level |-> "ERROR", msg |-> "JsonSyntax"]>>,
          ret |-> Raise([kind |-> "ValueError", text |-> "JsonSyntax"])]
    ELSE LET r == validate_config(file.config)
         IN [log |-> r.log, ret |-> r.ret]

\* draw_card(config, fio, barcode_value, folder): the image of a card, known
\* by the name and the barcode drawn on it
draw_card(c, fio, barcode_value) == [fio |-> fio, barcode |-> barcode_value]

\* the list handed to check_duplicates, line 733
DuplicateRows(es) == [k \in 1..Len(es) |-> <<es[k][1], es[k][3]>>]

\* a loop that renders each barcode once
RenderAll_once_per_barcode(c, es) ==
    LET firsts == SelectSeq([k \in 1..Len(es) |-> [k |-> k, e |-> es[k]]],
                            LAMBDA it : \A j \in 1..(it.k - 1) : es[j][3] # it.e[3])
    IN [k \in 1..Len(firsts) |->
          <<firsts[k].e[2], firsts[k].e[3], draw_card(c, firsts[k].e[2], firsts[k].e[3])>>]

\* the loop of lines 738-741: cards
RenderAll(c, es) ==
    [k \in 1..Len(es) |-> <<es[k][2], es[k][3], draw_card(c, es[k][2], es[k][3])>>]

\* [card for _, _, card in cards], line 744
CardImages(cs) == [k \in 1..Len(cs) |-> cs[k][3]]

(***************************************************************************)
(* Inputs of process_file_web                                              *)
(***************************************************************************)
\* most rows under the header row of a worksheet
MaxSheetRows == 3

HeaderRow == <<Str(<<"a", "b">>), Str(<<"b">>)>>

FirstName == Str(<<"a", "b", " ", "a">>)
SecondName == Str(<<"yo", "zh", " ", "b", " ", "B">>)
NoName == Str(<<"1">>)

\* thirteen digits whose last is not the check digit of the others
BadCheckDigits == Edited(13, 13, "7", 13, "7")

\* the rows a worksheet is made of
SheetRowKinds ==
    { <<FirstName, Str(SampleDigits)>>,
      <<SecondName, Str(Decorate("grouped", SamplePrefix(12)))>>,
      <<SecondName, Str(Edited(12, 12, "4", 12, "4"))>>,
      <<FirstName, PyInt(FALSE, SampleDigits)>>,
      <<FirstName, Str(BadCheckDigits)>>,
      <<NoName, Str(SampleDigits)>>,
      <<FirstName, Str(SamplePrefix(10))>>,
      <<FirstName, None>>,
      <<FirstName>>,
      <<FirstName, Num(FALSE, SampleDigits, 0)>>,
      <<NoName, None>>,
      <<None, Str(SampleDigits)>>,
      <<None, Str(<<" ">>)>> }

\* the folders process_file_web is run in
ConfigFiles ==
    { NoConfigJson, BrokenConfigJson,
      ConfigJson([DEFAULT_CONFIG EXCEPT !.cards_per_row = 2]),
      ConfigJson([DEFAULT_CONFIG EXCEPT !.cards_per_row = 0]) }

(***************************************************************************)
(* app.py                                                                  *)
(***************************************************************************)
\* the parameters of process_file_web, generate_cards.py line 725
process_file_web_params == {"xlsx_path"}

\* binding the arguments of a call f(path, **keywords) to the parameters of
\* f: a keyword that names no parameter is a TypeError
BindArguments(params, keywords) ==
    IF keywords \subseteq params THEN Return(keywords)
    ELSE Raise([kind |-> "TypeError", unexpected |-> keywords \ params])

\* process_file_web(xlsx_path) as its caller sees it: the outcome, and the
\* card images handed to layout_cards_on_a4 for the PDF
process_file_web(file, rows) ==
    LET cfg == load_config(file) IN
    IF ~cfg.ret.ok THEN [ret |-> cfg.ret, cards |-> <<>>]
    ELSE
      LET r == read_excel_rows(rows) IN
      IF ~r.ret.ok THEN [ret |-> r.ret, cards |-> <<>>]
      ELSE [ret |-> Return("output_pdf"),
            cards |-> CardImages(RenderAll(cfg.ret.val, r.ret.val))]

\* the rows an uploaded worksheet is made of
UploadRowKinds ==
    { <<FirstName, Str(SampleDigits)>>,
      <<SecondName, Str(Decorate("grouped", SamplePrefix(12)))>>,
      <<SecondName, Str(Edited(12, 12, "4", 12, "4"))>>,
      <<FirstName, Str(BadCheckDigits)>>,
      <<FirstName, None>> }

(***************************************************************************)
(* Initial values of each part                                             *)
(***************************************************************************)
BarcodeIdle ==
    /\ bc_pc = "idle"
    /\ bc_value = None
    /\ bc_row = 2
    /\ bc_ret = NoCall
    /\ bc_prev = NoCall

ConfigIdle ==
    /\ lc_pc = "idle"
    /\ lc_i = 1
    /\ lc_set = 0
    /\ config = DEFAULT_CONFIG
    /\ vc_input = DEFAULT_CONFIG
    /\ vc_log = <<>>
    /\ vc_ret = NoCall

LayoutIdle ==
    /\ lay_pc = "idle"
    /\ lay_config = DEFAULT_CONFIG
    /\ cards = <<>>
    /\ lay_i = 1
    /\ loop = [col |-> 0, x |-> 0, y |-> Float(FirstRowY(DEFAULT_CONFIG), 0)]
    /\ first_row_y = Float(FirstRowY(DEFAULT_CONFIG), 0)
    /\ pdf = NewCanvas
    /\ draws = <<>>

DuplicatesIdle ==
    /\ cd_pc = "idle"
    /\ cd_rows = <<>>
    /\ cd_ret = <<>>

NameIdle ==
    /\ fio_pc = "idle"
    /\ fio_arg = None
    /\ fio_ret = NoCall
    /\ fio_prev = NoCall

RunIdle ==
    /\ run_pc = "idle"
    /\ run_config = DEFAULT_CONFIG
    /\ sheet = <<>>
    /\ entries = <<>>
    /\ run_log = <<>>
    /\ run_cards = <<>>
    /\ run_ret = NoCall

WebIdle ==
    /\ web_pc = "no_file"
    /\ uploaded = <<>>
    /\ web_entries = <<>>
    /\ row_selection = <<>>
    /\ web_msg = "none"
    /\ web_ret = NoCall
    /\ web_doc = <<>>

\* every part before its first call
AllIdle ==
    /\ BarcodeIdle /\ ConfigIdle /\ LayoutIdle /\ DuplicatesIdle /\ NameIdle
    /\ RunIdle /\ WebIdle

(***************************************************************************)
(* Actions of the barcode specification                                    *)
(***************************************************************************)
BarcodeFrame == UNCHANGED <<vc_vars, lay_vars, cd_vars, fio_vars, run_vars, web_vars>>

Call(value, row) ==
    /\ bc_pc = "idle"
    /\ bc_pc' = "returned"
    /\ bc_value' = value
    /\ bc_row' = row
    /\ bc_ret' = normalize_barcode(value, row)
    /\ bc_prev' = NoCall
    /\ BarcodeFrame

\* normalize_barcode(None, row)
NormalizeNone ==
    /\ bc_pc = "idle"
    /\ \E row \in RowIds : Call(None, row)

\* normalize_barcode on a text cell
NormalizeText ==
    /\ bc_pc = "idle"
    /\ \E row \in RowIds, n \in 0..MaxRawDigits, style \in CellStyles :
         \E p1 \in 1..n, d1 \in Digit :
           \E p2 \in p1..n :
           \E d2 \in (IF p2 = p1 THEN {d1} ELSE Digit) :
             Call(Str(Decorate(style, Edited(n, p1, d1, p2, d2))), row)

\* normalize_barcode on an empty or digit-free text cell
NormalizeBlankText ==
    /\ bc_pc = "idle"
    /\ \E row \in RowIds, style \in CellStyles :
           Call(Str(Decorate(style, <<>>)), row)

\* normalize_barcode on a numeric cell
NormalizeNumber ==
    /\ bc_pc = "idle"
    /\ \E row \in RowIds, n \in 1..MaxRawDigits, neg \in BOOLEAN, tenths \in 0..9 :
         \E p1 \in 1..n, d1 \in Digit :
           LET ds == Edited(n, p1, d1, p1, d1) IN
           /\ (n = 1 \/ ds[1] # "0")
           /\ Call(Num(neg, ds, tenths), row)

\* normalize_barcode applied to its own result
Renormalize ==
    /\ bc_pc = "returned"
    /\ bc_ret.ok
    /\ bc_pc' = "renormalized"
    /\ bc_value' = Str(bc_ret.val)
    /\ bc_ret' = normalize_barcode(Str(bc_ret.val), bc_row)
    /\ bc_prev' = bc_ret
    /\ UNCHANGED bc_row
    /\ BarcodeFrame

BarcodeNext ==
    \/ NormalizeNone
    \/ NormalizeText
    \/ NormalizeBlankText
    \/ NormalizeNumber
    \/ Renormalize

BarcodeInit == AllIdle

SpecBarcode == BarcodeInit /\ [][BarcodeNext]_vars

(***************************************************************************)
(* Claims about normalize_barcode                                          *)
(***************************************************************************)
Called == bc_pc \in {"returned", "renormalized"}

\* the argument is a string of exactly n digits and nothing else
IsDigitString(n) ==
    /\ bc_value.type = "str"
    /\ Len(bc_value.chars) = n
    /\ \A i \in 1..n : bc_value.chars[i] \in Digit

\* the EAN-13 check digit of the first 12 digits of d, from its definition:
\* digits at the 0-indexed even positions weigh 1, those at the odd ones 3
Ean13CheckDigit(d) ==
    LET v(i) == DigitVal[d[i]]
        even == v(1) + v(3) + v(5) + v(7) + v(9) + v(11)
        odd == v(2) + v(4) + v(6) + v(8) + v(10) + v(12)
    IN (10 - ((even + 3 * odd) % 10)) % 10

\* the number of digit characters in a string
DigitCount(s) == Cardinality({i \in 1..Len(s) : s[i] \in Digit})

\* C1: for every 12-digit string D, normalize_barcode(D, row) succeeds and
\* returns 13 characters: D followed by the EAN-13 check digit of D.
C1_TwelveDigitsGetCheckDigit ==
    (Called /\ IsDigitString(12)) =>
        /\ bc_ret.ok
        /\ Len(bc_ret.val) = 13
        /\ SubSeq(bc_ret.val, 1, 12) = bc_value.chars
        /\ bc_ret.val[13] \in Digit
        /\ DigitVal[bc_ret.val[13]] = Ean13CheckDigit(bc_value.chars)

\* the spec's example: "400638133393" becomes "4006381333931"
C1_Witness ==
    /\ bc_pc = "returned"
    /\ bc_value = Str(SubSeq(SampleDigits, 1, 12))
    /\ bc_ret = Return(SampleDigits)

\* C2: a 13-digit string whose 13th digit is the check digit of its first 12
\* is returned unchanged, and normalizing a result again gives the same result.
C2_ValidThirteenUnchangedAndIdempotent ==
    /\ (Called /\ IsDigitString(13)
          /\ DigitVal[bc_value.chars[13]] = Ean13CheckDigit(bc_value.chars))
        => bc_ret = Return(bc_value.chars)
    /\ bc_pc = "renormalized" => bc_ret = bc_prev

\* a result whose check digit was appended by the first call is normalized again
C2_Witness ==
    /\ bc_pc = "renormalized"
    /\ bc_prev.ok
    /\ IsDigitString(13)
    /\ bc_value.chars # SampleDigits
    /\ bc_ret = Return(bc_value.chars)

\* C3: a 13-digit string whose 13th digit is not the check digit of its first
\* 12 makes normalize_barcode fail, the error naming the row and the check
\* digit that was expected.
C3_WrongCheckDigitFails ==
    (Called /\ IsDigitString(13)
       /\ DigitVal[bc_value.chars[13]] # Ean13CheckDigit(bc_value.chars))
    => /\ ~bc_ret.ok
       /\ bc_ret.err.kind = "BadCheckDigit"
       /\ bc_ret.err.row = bc_row
       /\ bc_ret.err.expected = <<DigitChar[Ean13CheckDigit(bc_value.chars)]>>

\* the sample with its last digit wrong, on row 3
C3_Witness ==
    /\ bc_pc = "returned"
    /\ bc_row = 3
    /\ bc_value = Str(SubSeq(SampleDigits, 1, 12) \o <<"7">>)
    /\ ~bc_ret.ok
    /\ bc_ret.err.expected = <<"1">>

\* C4: a non-null input whose digits number neither 12 nor 13 fails with an
\* error naming that number of digits; a null input fails naming the row.
C4_WrongDigitCountFails ==
    /\ (Called /\ bc_value # None
          /\ DigitCount(RawText(bc_value)) \notin {12, 13})
        => /\ ~bc_ret.ok
           /\ bc_ret.err.kind = "BadDigitCount"
           /\ bc_ret.err.row = bc_row
           /\ bc_ret.err.found = DigitCount(RawText(bc_value))
    /\ (Called /\ bc_value = None)
        => /\ ~bc_ret.ok
           /\ bc_ret.err.kind = "EmptyBarcode"
           /\ bc_ret.err.row = bc_row

\* a 10-digit text with a separator in it fails naming the count 10
C4_Witness ==
    /\ bc_pc = "returned"
    /\ bc_value.type = "str"
    /\ Len(bc_value.chars) = 11
    /\ DigitCount(bc_value.chars) = 10
    /\ ~bc_ret.ok
    /\ bc_ret.err.found = 10

(***************************************************************************)
(* Actions of the configuration specification                              *)
(***************************************************************************)
ConfigFrame == UNCHANGED <<bc_vars, lay_vars, cd_vars, fio_vars, run_vars, web_vars>>

\* load_config, config.json exists and parses: start from a copy of the defaults
LoadConfig ==
    /\ lc_pc = "idle"
    /\ lc_pc' = "loading"
    /\ config' = DEFAULT_CONFIG
    /\ UNCHANGED <<lc_i, lc_set, vc_input, vc_log, vc_ret>>
    /\ ConfigFrame

\* load_config, no config.json: the defaults are returned, not validated
NoConfigFile ==
    /\ lc_pc = "idle"
    /\ lc_pc' = "loaded"
    /\ config' = DEFAULT_CONFIG
    /\ UNCHANGED <<lc_i, lc_set, vc_input, vc_log, vc_ret>>
    /\ ConfigFrame

\* load_config's loop, a field that config.json holds: setattr
SetField ==
    /\ lc_pc = "loading"
    /\ lc_i <= Len(ConfigFields)
    /\ lc_set < MaxOverrides
    /\ \E v \in FieldValues(ConfigFields[lc_i]) :
         config' = [config EXCEPT ![ConfigFields[lc_i]] = v]
    /\ lc_i' = lc_i + 1
    /\ lc_set' = lc_set + 1
    /\ UNCHANGED <<lc_pc, vc_input, vc_log, vc_ret>>
    /\ ConfigFrame

\* load_config's loop, a field that config.json does not hold
SkipField ==
    /\ lc_pc = "loading"
    /\ lc_i <= Len(ConfigFields)
    /\ lc_i' = lc_i + 1
    /\ UNCHANGED <<lc_pc, lc_set, config, vc_input, vc_log, vc_ret>>
    /\ ConfigFrame

\* load_config's last line: validate_config(config)
Validate ==
    /\ lc_pc = "loading"
    /\ lc_i > Len(ConfigFields)
    /\ lc_pc' = "validated"
    /\ vc_input' = config
    /\ LET r == validate_config(config)
       IN /\ config' = r.config
          /\ vc_log' = vc_log \o r.log
          /\ vc_ret' = r.ret
    /\ UNCHANGED <<lc_i, lc_set>>
    /\ ConfigFrame

ConfigNext ==
    \/ NoConfigFile
    \/ LoadConfig
    \/ SetField
    \/ SkipField
    \/ Validate

ConfigInit == AllIdle

SpecConfig == ConfigInit /\ [][ConfigNext]_vars

(***************************************************************************)
(* Claims about validate_config                                            *)
(***************************************************************************)
Validated == lc_pc = "validated"

StrictlyPositiveFields ==
    {"card_width_mm", "card_height_mm", "font_size_pt", "barcode_width_mm"}

NonNegativeFields ==
    {"card_border_thickness_mm", "text_top_offset_mm", "gap_mm", "top_margin_mm",
     "barcode_right_offset_mm"}

OutsidePercentRange(v) == ~(0 < v /\ v <= Fx(100, 0))

\* the fields of c that break a hard rule
ViolatedFields(c) ==
    {f \in StrictlyPositiveFields : c[f] <= 0}
    \cup {f \in NonNegativeFields : c[f] < 0}
    \cup {f \in {"barcode_height_scale_percent"} : OutsidePercentRange(c[f])}
    \cup {f \in {"barcode_top_offset_percent"} :
            c[f] # Nothing /\ OutsidePercentRange(c[f][1])}
    \cup {f \in {"cards_per_row"} : c[f] < 1}

\* the field names of the ERROR records in a log, in order
LoggedErrorNames(log) ==
    LET errs == SelectSeq(log, LAMBDA r : r.level = "ERROR")
    IN [i \in 1..Len(errs) |-> errs[i].msg.name]

LoggedWarnings(log) ==
    {r.msg.kind : r \in {log[i] : i \in {j \in 1..Len(log) : log[j].level = "WARNING"}}}

C9_ScalePercent150Passes ==
    (Validated
       /\ vc_input = [DEFAULT_CONFIG EXCEPT !.barcode_height_scale_percent = Fx(150, 0)])
    => /\ vc_ret.ok
       /\ LoggedErrorNames(vc_log) = <<>>
       /\ LoggedWarnings(vc_log) \subseteq {"RowExceedsA4"}

\* C10 as stated: with k >= 1 hard rules violated, the one error raised
\* carries all k violations.
C10_ErrorCarriesAllViolations ==
    (Validated /\ ViolatedFields(vc_input) # {})
    => /\ ~vc_ret.ok
       /\ vc_ret.err.names = ViolatedFields(vc_input)

\* C10 amended: with k >= 1 hard rules violated, validate_config evaluates
\* every rule before failing and raises one error; the k violations are
\* written to the log, one ERROR record for each violated field, and the error
\* raised carries only a fixed text that names none of them.
C10_AllViolationsLoggedOneErrorRaised ==
    (Validated /\ ViolatedFields(vc_input) # {})
    => /\ ~vc_ret.ok
       /\ vc_ret.err = [kind |-> "ValueError", text |-> "ConfigErrorSeeLog",
                        names |-> {}]
       /\ LET logged == LoggedErrorNames(vc_log)
          IN /\ {logged[i] : i \in 1..Len(logged)} = ViolatedFields(vc_input)
             /\ Len(logged) = Cardinality(ViolatedFields(vc_input))

\* three fields violated at once, a size, a percentage and cards_per_row
C10_Witness ==
    /\ Validated
    /\ ViolatedFields(vc_input) =
          {"card_width_mm", "barcode_height_scale_percent", "cards_per_row"}
    /\ ~vc_ret.ok
    /\ Len(vc_log) >= 3

(***************************************************************************)
(* Actions of the layout specification                                     *)
(***************************************************************************)
LayoutFrame == UNCHANGED <<bc_vars, vc_vars, cd_vars, fio_vars, run_vars, web_vars>>

\* layout_cards_on_a4(cards, config, output_pdf), lines 459-470
StartLayout ==
    /\ lay_pc = "idle"
    /\ \E c \in LayoutConfigs, n \in 0..MaxCards, e \in {-1, 0, 1} :
         /\ HardRuleErrors(c) = <<>>
         /\ e \in FirstRowErrSigns(c)
         /\ lay_config' = c
         /\ cards' = [k \in 1..n |-> k]
         /\ first_row_y' = Float(FirstRowY(c), e)
         /\ loop' = [col |-> 0, x |-> 0, y |-> Float(FirstRowY(c), e)]
    /\ lay_pc' = "loop"
    /\ lay_i' = 1
    /\ pdf' = NewCanvas
    /\ draws' = <<>>
    /\ LayoutFrame

\* one pass of the loop over cards, lines 472-488
PlaceCard ==
    /\ lay_pc = "loop"
    /\ lay_i <= Len(cards)
    /\ \E e \in {-1, 0, 1} :
         LET card_img == cards[lay_i]
             row == AdvanceRow(loop, lay_config, e)
             break == IsNegative(row.y)
             at == BreakPage(row, first_row_y)
             canvas == IF break THEN showPage(pdf) ELSE pdf
         IN /\ e \in (IF row = loop THEN {0} ELSE ErrSigns(row.y.v))
            /\ pdf' = drawImage(canvas, card_img)
            /\ draws' = Append(draws,
                    [card |-> card_img, page |-> Len(canvas.shown) + 1,
                     col |-> at.col, x |-> at.x, y |-> at.y, y_tested |-> row.y])
            /\ loop' = NextColumn(at, lay_config)
    /\ lay_i' = lay_i + 1
    /\ UNCHANGED <<lay_pc, lay_config, cards, first_row_y>>
    /\ LayoutFrame

\* pdf.save(), line 490
SavePdf ==
    /\ lay_pc = "loop"
    /\ lay_i > Len(cards)
    /\ lay_pc' = "saved"
    /\ pdf' = save(pdf)
    /\ UNCHANGED <<lay_config, cards, lay_i, loop, first_row_y, draws>>
    /\ LayoutFrame

LayoutNext ==
    \/ StartLayout
    \/ PlaceCard
    \/ SavePdf

LayoutInit == AllIdle

SpecLayout == LayoutInit /\ [][LayoutNext]_vars

(***************************************************************************)
(* Claims about layout_cards_on_a4                                         *)
(***************************************************************************)
\* the distance between two rows, and between two columns
RowStep == card_h_pt(lay_config) + gap_pt(lay_config)
ColStep == card_w_pt(lay_config) + gap_pt(lay_config)

\* a is read before b: an earlier page, or a higher row of the same page, or
\* the same row further left
ReadBefore(a, b) ==
    \/ a.page < b.page
    \/ a.page = b.page /\ a.y.v > b.y.v
    \/ a.page = b.page /\ a.y.v = b.y.v /\ a.x < b.x

\* C5: layout_cards_on_a4 draws every input card once, the k-th draw is the
\* k-th card, and successive draws are strictly increasing in reading order
\* (page, then row from the top, then column from the left).
C5_DrawnInInputAndReadingOrder ==
    /\ lay_pc = "saved" => Len(draws) = Len(cards)
    /\ lay_pc = "loop" => Len(draws) = lay_i - 1
    /\ \A k \in 1..Len(draws) : draws[k].card = cards[k]
    /\ \A k \in 1..(Len(draws) - 1) : ReadBefore(draws[k], draws[k + 1])

\* seven cards over rows of two have filled more than one page
C5_Witness ==
    /\ lay_pc = "saved"
    /\ Len(cards) = 7
    /\ lay_config.cards_per_row = 2
    /\ Len(draws) = 7
    /\ draws[7].page = 2
    /\ draws[7].col = 0
    /\ draws[6].col = 1

SevenCardsThreePerRow ==
    /\ lay_pc = "saved"
    /\ lay_config.cards_per_row = 3
    /\ Len(cards) = 7

\* cards 1..6 are on page 1 as two rows of three, the first row at the
\* first-row position
FirstSixInGrid ==
    \A k \in 1..6 :
        /\ draws[k].page = 1
        /\ draws[k].x = ((k - 1) % 3) * ColStep
        /\ draws[k].y.v = FirstRowY(lay_config) - ((k - 1) \div 3) * RowStep

\* no y the loop tested was exactly 0, where rounding decides the test
RoundingPlayedNoPart == \A k \in 1..Len(draws) : draws[k].y_tested.v # 0

\* C6 as stated: with cards_per_row = 3 and 7 cards, cards 1-6 are on page 1
\* as a 3x2 grid and card 7 is alone on page 2 at the first-row position
\* (looked at in the runs whose page breaks do not hang on rounding).
C6_SeventhCardAloneOnPageTwo ==
    (SevenCardsThreePerRow /\ RoundingPlayedNoPart) =>
        /\ FirstSixInGrid
        /\ pdf.shown = << <<1, 2, 3, 4, 5, 6>>, <<7>> >>
        /\ draws[7].x = 0
        /\ draws[7].y.v = FirstRowY(lay_config)

\* C6 amended: with cards_per_row = 3 and 7 cards, when a page has room for
\* exactly two rows (the second row's y is above 0 and a third row's y would
\* be below 0) cards 1-6 are on page 1 as a 3x2 grid and card 7 is alone on
\* page 2 at the first-row position; when a third row's y is above 0, as
\* with the default geometry, all 7 cards are on page 1 and card 7 starts its
\* third row.
C6_SeventhCardFollowsRoomOnPage ==
    /\ (SevenCardsThreePerRow
          /\ FirstRowY(lay_config) - RowStep > 0
          /\ FirstRowY(lay_config) - 2 * RowStep < 0)
        => /\ FirstSixInGrid
           /\ pdf.shown = << <<1, 2, 3, 4, 5, 6>>, <<7>> >>
           /\ draws[7].x = 0
           /\ draws[7].y.v = FirstRowY(lay_config)
    /\ (SevenCardsThreePerRow /\ FirstRowY(lay_config) - 2 * RowStep > 0)
        => /\ FirstSixInGrid
           /\ pdf.shown = << <<1, 2, 3, 4, 5, 6, 7>> >>
           /\ draws[7].x = 0
           /\ draws[7].y.v = FirstRowY(lay_config) - 2 * RowStep

\* cards 100 mm high under a 12 mm margin: two rows to a page
C6_Witness ==
    /\ SevenCardsThreePerRow
    /\ lay_config.card_height_mm = Fx(100, 0)
    /\ lay_config.top_margin_mm = Fx(12, 0)
    /\ pdf.shown = << <<1, 2, 3, 4, 5, 6>>, <<7>> >>
    /\ draws[7].y = first_row_y

\* the loop's variables when it reaches card k: those of the draw before,
\* moved on by one column
Reaching(k) ==
    IF k = 1 THEN [col |-> 0, x |-> 0, y |-> first_row_y, page |-> 1]
    ELSE [col |-> draws[k - 1].col + 1, x |-> draws[k - 1].x + ColStep,
          y |-> draws[k - 1].y, page |-> draws[k - 1].page]

\* C7: a new row begins exactly after cards_per_row cards have been placed in
\* the current row (x back to 0, y lowered by card_height + gap); a page break
\* happens exactly when the row about to receive a card has y < 0; after a
\* page break the column is 0, x = 0 and y is the first-row position.
C7_RowAndPageBreaks ==
    \A k \in 1..Len(draws) :
        LET d == draws[k]
            was == Reaching(k)
            new_row == was.col >= lay_config.cards_per_row
            new_page == d.page # was.page
        IN /\ d.y_tested.v = IF new_row THEN was.y.v - RowStep ELSE was.y.v
           /\ ~new_row => d.y_tested = was.y
           /\ new_page <=> IsNegative(d.y_tested)
           /\ new_page => /\ d.page = was.page + 1
                          /\ d.col = 0 /\ d.x = 0 /\ d.y = first_row_y
           /\ (~new_page /\ new_row) =>
                 d.col = 0 /\ d.x = 0 /\ d.y = d.y_tested
           /\ (~new_page /\ ~new_row) =>
                 d.col = was.col /\ d.x = was.x /\ d.y = was.y

\* a row was completed and the next row was below the page: the card that
\* follows opens a new page at the first-row position
C7_Witness ==
    /\ Len(draws) >= 5
    /\ lay_config.cards_per_row = 2
    /\ draws[3].page = 1 /\ draws[3].col = 0
    /\ draws[3].y.v = first_row_y.v - RowStep
    /\ draws[5].page = 2 /\ draws[5].col = 0 /\ draws[5].x = 0
    /\ draws[5].y = first_row_y
    /\ draws[5].y_tested.v < 0

\* C15: for every configuration accepted by validate_config and every
\* non-empty card sequence, every card drawn by layout_cards_on_a4 is placed
\* at y >= 0 and every page emitted contains at least one card, also when
\* card_height + top_margin exceeds the page height (looked at in the runs
\* whose page breaks do not hang on rounding).
C15_CardsOnPageNoEmptyPage ==
    (Len(cards) > 0 /\ RoundingPlayedNoPart) =>
        /\ \A k \in 1..Len(draws) : draws[k].y.v >= 0
        /\ \A p \in 1..Len(pdf.shown) : Len(pdf.shown[p]) > 0

(***************************************************************************)
(* Actions of the duplicate detector's specification                       *)
(***************************************************************************)
DuplicatesFrame == UNCHANGED <<bc_vars, vc_vars, lay_vars, fio_vars, run_vars, web_vars>>

\* check_duplicates(rows)
CheckDuplicates ==
    /\ cd_pc = "idle"
    /\ \E n \in 0..MaxPairs :
         \E rows \in [1..n -> PairRows \X PairCodes] :
           /\ cd_rows' = rows
           /\ cd_ret' = check_duplicates(rows)
    /\ cd_pc' = "returned"
    /\ DuplicatesFrame

DuplicatesNext ==
    CheckDuplicates

DuplicatesInit == AllIdle

SpecDuplicates == DuplicatesInit /\ [][DuplicatesNext]_vars

(***************************************************************************)
(* Claims about check_duplicates                                           *)
(***************************************************************************)
\* the positions of cd_rows that hold identifier code
Occurrences(code) == {i \in 1..Len(cd_rows) : cd_rows[i][2] = code}

\* the k-th of these positions, counted from the front
NthOccurrence(code, k) ==
    CHOOSE i \in Occurrences(code) :
        Cardinality({j \in Occurrences(code) : j <= i}) = k

FirstOccurrence(code) == NthOccurrence(code, 1)

\* C11: check_duplicates returns a mapping whose keys are exactly the
\* identifiers occurring more than once in the input, ordered by first
\* occurrence, each mapped to the list of all its row identities in input
\* order; for an input with all-distinct identifiers the result is empty.
C11_DuplicatesByFirstOccurrence ==
    cd_pc = "returned" =>
        /\ {cd_ret[i].key : i \in 1..Len(cd_ret)}
             = {code \in PairCodes : Cardinality(Occurrences(code)) > 1}
        /\ \A i, j \in 1..Len(cd_ret) :
             i < j => FirstOccurrence(cd_ret[i].key) < FirstOccurrence(cd_ret[j].key)
        /\ \A i \in 1..Len(cd_ret) :
             LET code == cd_ret[i].key
             IN /\ Len(cd_ret[i].val) = Cardinality(Occurrences(code))
                /\ \A k \in 1..Len(cd_ret[i].val) :
                     cd_ret[i].val[k] = cd_rows[NthOccurrence(code, k)][1]
        /\ (\A i, j \in 1..Len(cd_rows) : i # j => cd_rows[i][2] # cd_rows[j][2])
             => cd_ret = <<>>

\* two identifiers repeat, interleaved, and the one met second is repeated
\* first; the rows of each come back in input order
C11_Witness ==
    /\ cd_pc = "returned"
    /\ cd_rows = << <<4, "B">>, <<2, "A">>, <<3, "A">>, <<2, "B">> >>
    /\ cd_ret = << [key |-> "B", val |-> <<4, 2>>], [key |-> "A", val |-> <<2, 3>>] >>

(***************************************************************************)
(* Actions of the name normalizer's specification                          *)
(***************************************************************************)
NameFrame == UNCHANGED <<bc_vars, vc_vars, lay_vars, cd_vars, run_vars, web_vars>>

\* parse_fio(None)
ParseNone ==
    /\ fio_pc = "idle"
    /\ fio_pc' = "returned"
    /\ fio_arg' = None
    /\ fio_ret' = parse_fio(None)
    /\ fio_prev' = NoCall
    /\ NameFrame

\* parse_fio on a text
ParseText ==
    /\ fio_pc = "idle"
    /\ \E n \in 0..MaxWords, style \in NameStyles :
         \E words \in [1..n -> NameWords] :
           /\ fio_arg' = Str(RawName(style, words))
           /\ fio_ret' = parse_fio(Str(RawName(style, words)))
    /\ fio_pc' = "returned"
    /\ fio_prev' = NoCall
    /\ NameFrame

\* parse_fio applied to its own result
Reparse ==
    /\ fio_pc = "returned"
    /\ fio_ret.ok
    /\ fio_pc' = "reparsed"
    /\ fio_arg' = Str(fio_ret.val)
    /\ fio_ret' = parse_fio(Str(fio_ret.val))
    /\ fio_prev' = fio_ret
    /\ NameFrame

NameNext ==
    \/ ParseNone
    \/ ParseText
    \/ Reparse

NameInit == AllIdle

SpecName == NameInit /\ [][NameNext]_vars

(***************************************************************************)
(* Claims about parse_fio                                                  *)
(***************************************************************************)
\* the surname of a canonical name: what stands before its first space
SurnameOf(name) == SubSeq(name, 1, PrefixLen(name, NameAlphabet \ Whitespace))

\* the number of periods in a name
Periods(name) == Cardinality({i \in 1..Len(name) : name[i] = "."})

\* C13: for every raw name on which parse_fio succeeds, parse_fio applied to
\* the result also succeeds and returns the same name; the surname is
\* unchanged and no period is added or duplicated.
C13_ParseFioIdempotent ==
    fio_pc = "reparsed" =>
        /\ fio_ret.ok
        /\ fio_ret.val = fio_prev.val
        /\ SurnameOf(fio_ret.val) = SurnameOf(fio_prev.val)
        /\ Periods(fio_ret.val) = Periods(fio_prev.val)

\* a surname with two abbreviated initials has been parsed again
C13_Witness ==
    /\ fio_pc = "reparsed"
    /\ fio_prev = Return(<<"A", "B", " ", "YO", ".", "B", ".">>)
    /\ fio_ret = fio_prev
    /\ SurnameOf(fio_ret.val) = <<"A", "B">>
    /\ Periods(fio_ret.val) = 2

(***************************************************************************)
(* Actions of process_file_web                                             *)
(***************************************************************************)
RunFrame == UNCHANGED <<bc_vars, vc_vars, cd_vars, fio_vars, web_vars>>

\* lines 727-730: setup_logging, load_config
RunLoadConfig ==
    /\ run_pc = "idle"
    /\ \E file \in ConfigFiles :
         LET r == load_config(file)
         IN /\ run_log' = run_log \o r.log
            /\ IF r.ret.ok
               THEN /\ run_pc' = "configured"
                    /\ run_config' = r.ret.val
                    /\ UNCHANGED run_ret
               ELSE /\ run_pc' = "failed"
                    /\ run_ret' = r.ret
                    /\ UNCHANGED run_config
    /\ UNCHANGED <<sheet, entries, run_cards>>
    /\ UNCHANGED lay_vars
    /\ RunFrame

\* line 731: read_excel_rows(xlsx_path)
RunReadRows ==
    /\ run_pc = "configured"
    /\ \E n \in 0..MaxSheetRows :
         \E rows \in [1..n -> SheetRowKinds] :
           \E r \in {read_excel_rows(<<HeaderRow>> \o rows)} :
              /\ sheet' = <<HeaderRow>> \o rows
              /\ run_log' = run_log \o r.log
              /\ IF r.ret.ok
                 THEN /\ run_pc' = "read"
                      /\ entries' = r.ret.val
                      /\ UNCHANGED run_ret
                 ELSE /\ run_pc' = "failed"
                      /\ run_ret' = r.ret
                      /\ UNCHANGED entries
    /\ UNCHANGED <<run_config, run_cards>>
    /\ UNCHANGED lay_vars
    /\ RunFrame

\* lines 733-736: duplicates are logged
RunCheckDuplicates ==
    /\ run_pc = "read"
    /\ run_pc' = "checked"
    /\ LET duplicates == check_duplicates(DuplicateRows(entries))
       IN run_log' = IF Len(duplicates) > 0
                     THEN Append(run_log, [level |-> "WARNING", kind |-> "DuplicatesFound",
                                           duplicates |-> duplicates])
                     ELSE run_log
    /\ UNCHANGED <<run_config, sheet, entries, run_cards, run_ret>>
    /\ UNCHANGED lay_vars
    /\ RunFrame

\* lines 738-741: one card for each entry
RunRenderCards ==
    /\ run_pc = "checked"
    /\ run_pc' = "rendered"
    /\ run_cards' = RenderAll(run_config, entries)
    /\ UNCHANGED <<run_config, sheet, entries, run_log, run_ret>>
    /\ UNCHANGED lay_vars
    /\ RunFrame

\* lines 743-744: layout_cards_on_a4 is called and runs to its loop
RunLayout ==
    /\ run_pc = "rendered"
    /\ run_pc' = "layout"
    /\ lay_pc = "idle"
    /\ \E e \in FirstRowErrSigns(run_config) :
         /\ first_row_y' = Float(FirstRowY(run_config), e)
         /\ loop' = [col |-> 0, x |-> 0, y |-> Float(FirstRowY(run_config), e)]
    /\ lay_config' = run_config
    /\ cards' = CardImages(run_cards)
    /\ lay_pc' = "loop"
    /\ lay_i' = 1
    /\ pdf' = NewCanvas
    /\ draws' = <<>>
    /\ UNCHANGED <<run_config, sheet, entries, run_log, run_cards, run_ret>>
    /\ RunFrame

\* layout_cards_on_a4 inside process_file_web: its loop and pdf.save()
RunPlaceCard == run_pc = "layout" /\ PlaceCard
RunSavePdf == run_pc = "layout" /\ SavePdf

\* line 746, once layout_cards_on_a4 has returned
RunReturn ==
    /\ run_pc = "layout"
    /\ lay_pc = "saved"
    /\ run_pc' = "done"
    /\ run_ret' = Return("output_pdf")
    /\ UNCHANGED <<run_config, sheet, entries, run_log, run_cards>>
    /\ UNCHANGED lay_vars
    /\ RunFrame

RunNext ==
    \/ RunLoadConfig
    \/ RunReadRows
    \/ RunCheckDuplicates
    \/ RunRenderCards
    \/ RunLayout
    \/ RunPlaceCard
    \/ RunSavePdf
    \/ RunReturn

RunInit == AllIdle

SpecRun == RunInit /\ [][RunNext]_vars

(***************************************************************************)
(* Claims about process_file_web                                           *)
(***************************************************************************)
\* the run is over, and had come to reading the worksheet
RunEndedAfterReading == run_pc \in {"done", "failed"} /\ Len(sheet) > 0

\* no document was written
NoDocument == lay_pc = "idle" /\ pdf = NewCanvas

\* the cards of the document, page after page
RECURSIVE Flatten(_)
Flatten(pages) == IF Len(pages) = 0 THEN <<>> ELSE Head(pages) \o Flatten(Tail(pages))

BarcodeCell(row) == IF Len(row) > 1 THEN row[2] ELSE None

\* the source records with a non-empty name: rows under the header whose
\* first cell is not blank
Records ==
    {i \in 2..Len(sheet) :
        /\ Len(sheet[i]) > 0
        /\ sheet[i][1] # None
        /\ \E k \in 1..Len(sheet[i][1].chars) : sheet[i][1].chars[k] \notin Whitespace}

\* the identifier of record i cannot be normalized
CannotNormalize(i) == ~normalize_barcode(BarcodeCell(sheet[i]), i).ok

\* C12 as stated: if any source record with a non-empty name has an
\* identifier that cannot be normalized (wrong digit count, bad check digit,
\* or empty), the run fails and produces no document.
C12_BadRecordIsFatal ==
    (RunEndedAfterReading /\ \E i \in Records : CannotNormalize(i)) =>
        run_pc = "failed" /\ NoDocument

\* the digits in the text of the barcode cell of row i
CellDigits(i) ==
    IF BarcodeCell(sheet[i]) = None THEN <<>>
    ELSE StripNonDigits(py_str(BarcodeCell(sheet[i])))

\* records whose barcode cell is empty or holds neither 12 nor 13 digits
DroppedRecords == {i \in Records : Len(CellDigits(i)) \notin {12, 13}}

\* records whose barcode cell holds 13 digits with a wrong check digit, or
\* 12 or 13 digits next to a name without a single letter, period or hyphen
FatalRecords ==
    {i \in Records \ DroppedRecords :
        \/ /\ Len(CellDigits(i)) = 13
           /\ DigitVal[CellDigits(i)[13]] # Ean13CheckDigit(CellDigits(i))
        \/ \A k \in 1..Len(sheet[i][1].chars) : sheet[i][1].chars[k] \notin TokenChars}

KeptRecords == Records \ (DroppedRecords \cup FatalRecords)

\* the rows the log says were left out
RowsLoggedAsDropped ==
    {run_log[k].row : k \in {j \in 1..Len(run_log) : "row" \in DOMAIN run_log[j]}}

\* C12 amended: a record with a non-empty name whose barcode cell holds 13
\* digits with a wrong check digit (or 12 or 13 digits next to a name that
\* cannot be parsed) is fatal: the run fails naming the first such row and
\* writes no document.  A record whose barcode cell is empty or holds another
\* number of digits is left out with a warning: when no record is fatal the
\* document holds one card for each remaining record, in row order, and the
\* run fails for want of data only when none remains.
C12_BadCheckDigitFatalOtherRowsLeftOut ==
    RunEndedAfterReading =>
        /\ FatalRecords # {} =>
             /\ run_pc = "failed" /\ NoDocument
             /\ run_ret.err.kind = "RowError"
             /\ run_ret.err.row \in FatalRecords
             /\ \A i \in FatalRecords : run_ret.err.row <= i
        /\ (FatalRecords = {} /\ KeptRecords = {}) =>
             /\ run_pc = "failed" /\ NoDocument
             /\ run_ret.err.kind = "NoData"
        /\ (FatalRecords = {} /\ KeptRecords # {}) =>
             /\ run_pc = "done" /\ run_ret.ok
             /\ {entries[k][1] : k \in 1..Len(entries)} = KeptRecords
             /\ \A j, k \in 1..Len(entries) : j < k => entries[j][1] < entries[k][1]
             /\ Len(Flatten(pdf.shown)) = Len(entries)
             /\ \A k \in 1..Len(entries) :
                  /\ Flatten(pdf.shown)[k].fio = entries[k][2]
                  /\ Flatten(pdf.shown)[k].barcode = entries[k][3]
                  /\ SubSeq(entries[k][3], 1, 12) = SubSeq(CellDigits(entries[k][1]), 1, 12)
        /\ FatalRecords = {} => RowsLoggedAsDropped = DroppedRecords

\* a worksheet with a ten-digit barcode between two good records: the
\* document holds the two good records' cards
C12_Witness ==
    /\ run_pc = "done"
    /\ sheet = <<HeaderRow, <<FirstName, Str(SampleDigits)>>,
                 <<FirstName, Str(SamplePrefix(10))>>,
                 <<SecondName, Str(Edited(12, 12, "4", 12, "4"))>> >>
    /\ DroppedRecords = {3}
    /\ Len(Flatten(pdf.shown)) = 2
    /\ Flatten(pdf.shown)[2].fio = <<"YO", "ZH", " ", "B", ".", "B", ".">>
    /\ RowsLoggedAsDropped = {3}

\* two entries share a barcode
HasDuplicates ==
    \E j, k \in 1..Len(entries) : j # k /\ entries[j][3] = entries[k][3]

\* the warnings about duplicates in the log
DuplicateWarnings ==
    {k \in 1..Len(run_log) : "duplicates" \in DOMAIN run_log[k]}

\* C14: in process_file_web, for any list of valid entries that contains
\* duplicate identifiers, every entry (duplicates included) is rendered to
\* one card and all cards are passed to the packer in entry order; the only
\* effect of duplicates is a logged warning.
C14_DuplicatesOnlyWarn ==
    /\ run_pc \in {"checked", "rendered", "layout", "done"} =>
          Cardinality(DuplicateWarnings) = IF HasDuplicates THEN 1 ELSE 0
    /\ HasDuplicates =>
          /\ run_pc # "failed"
          /\ run_pc \in {"rendered", "layout", "done"} =>
                /\ Len(run_cards) = Len(entries)
                /\ \A k \in 1..Len(entries) :
                     /\ run_cards[k][1] = entries[k][2]
                     /\ run_cards[k][2] = entries[k][3]
                     /\ run_cards[k][3] = [fio |-> entries[k][2], barcode |-> entries[k][3]]
          /\ run_pc \in {"layout", "done"} =>
                /\ Len(cards) = Len(entries)
                /\ \A k \in 1..Len(entries) : cards[k] = run_cards[k][3]
          /\ run_pc = "done" =>
                /\ run_ret.ok
                /\ Flatten(pdf.shown) = cards

\* two records with one barcode, written with and without its check digit:
\* both are in the document and the log holds the warning naming their rows
C14_Witness ==
    /\ run_pc = "done"
    /\ Len(entries) = 2
    /\ entries[1][3] = SampleDigits /\ entries[2][3] = SampleDigits
    /\ entries[1][2] # entries[2][2]
    /\ Len(Flatten(pdf.shown)) = 2
    /\ Flatten(pdf.shown)[1].barcode = Flatten(pdf.shown)[2].barcode
    /\ \E k \in DuplicateWarnings :
         run_log[k].duplicates = <<[key |-> SampleDigits, val |-> <<2, 3>>]>>

(***************************************************************************)
(* Actions of the web page: each is one run of the script app.py           *)
(***************************************************************************)
WebFrame == UNCHANGED <<bc_vars, vc_vars, lay_vars, cd_vars, fio_vars, run_vars>>

\* a file is uploaded, lines 29-47: it is read, and every row read gets an
\* unticked entry in the selection
UploadFile ==
    /\ web_pc = "no_file"
    /\ \E n \in 0..MaxSheetRows :
         \E rows \in [1..n -> UploadRowKinds] :
           \E r \in {read_excel_rows(<<HeaderRow>> \o rows)} :
              /\ uploaded' = <<HeaderRow>> \o rows
              /\ IF r.ret.ok
                 THEN /\ web_pc' = "table"
                      /\ web_entries' = r.ret.val
                      /\ row_selection' =
                           [row_idx \in {r.ret.val[k][1] : k \in 1..Len(r.ret.val)} |-> FALSE]
                 ELSE /\ web_pc' = "read_error"
                      /\ UNCHANGED <<web_entries, row_selection>>
    /\ UNCHANGED <<web_msg, web_ret, web_doc>>
    /\ WebFrame

\* a checkbox of the table is ticked or unticked, lines 72-92
EditRow ==
    /\ web_pc = "table"
    /\ \E row_idx \in DOMAIN row_selection, ticked \in BOOLEAN :
         /\ row_selection[row_idx] # ticked
         /\ row_selection' = [row_selection EXCEPT ![row_idx] = ticked]
    /\ UNCHANGED <<web_pc, uploaded, web_entries, web_msg, web_ret, web_doc>>
    /\ WebFrame

\* the button is pressed, lines 98-129; the temporary folder of line 115
\* holds the uploaded file and no config.json
PressGenerate ==
    /\ web_pc = "table"
    /\ \E out \in {process_file_web(NoConfigJson, uploaded)} :
       LET selected_entries == SelectSeq(web_entries, LAMBDA entry : row_selection[entry[1]])
           bound == BindArguments(process_file_web_params, {"entries"})
       IN IF Len(web_entries) = 0
          THEN /\ web_msg' = "no_data"
               /\ UNCHANGED <<web_ret, web_doc>>
          ELSE IF Len(selected_entries) = 0
          THEN /\ web_msg' = "select_a_row"
               /\ UNCHANGED <<web_ret, web_doc>>
          ELSE IF ~bound.ok
          THEN /\ web_msg' = "exception"
               /\ web_ret' = bound
               /\ web_doc' = <<>>
          ELSE IF ~out.ret.ok
          THEN /\ web_msg' = "exception"
               /\ web_ret' = out.ret
               /\ web_doc' = <<>>
          ELSE /\ web_msg' = "done"
               /\ web_ret' = out.ret
               /\ web_doc' = out.cards
    /\ UNCHANGED <<web_pc, uploaded, web_entries, row_selection>>
    /\ WebFrame

WebNext ==
    \/ UploadFile
    \/ EditRow
    \/ PressGenerate

WebInit == AllIdle

SpecWeb == WebInit /\ [][WebNext]_vars

(***************************************************************************)
(* Claims about the web page                                               *)
(***************************************************************************)
\* the entries whose row is ticked, in row order
SelectedEntries == SelectSeq(web_entries, LAMBDA entry : row_selection[entry[1]])

\* Generate was pressed last with a file uploaded and a row ticked
GeneratePressedWithSelection ==
    /\ web_pc = "table"
    /\ web_msg \in {"exception", "done"}
    /\ Len(SelectedEntries) > 0

\* C16: when a file is uploaded, at least one row is selected and Generate
\* is pressed, generation completes without error and the document contains
\* one card for exactly each selected entry, in original row order, and none
\* for unselected entries.
C16_GenerateMakesSelectedCards ==
    GeneratePressedWithSelection =>
        /\ web_msg = "done"
        /\ web_ret.ok
        /\ Len(web_doc) = Len(SelectedEntries)
        /\ \A k \in 1..Len(web_doc) :
             /\ web_doc[k].fio = SelectedEntries[k][2]
             /\ web_doc[k].barcode = SelectedEntries[k][3]

====
